---- MODULE Spec2Model ----
(***************************************************************************)
(* Model of the Code Archaeology dashboard client core:                    *)
(*   - useAnalysisRun   (src/lib/useAnalysisRun.ts): the run-status poller *)
(*   - analysisStorage  (unnamed/part_005): the persisted session slot     *)
(*   - the metric derivations of the dashboard pages (pure functions)      *)
(***************************************************************************)
EXTENDS Integers, Sequences, FiniteSets, TLC

\* ------------------------------------------------------------------ bounds
MaxFetch == 3       \* status requests issued over a whole behaviour
MaxResub == 2       \* effect cleanups (runId change, unmount) over a behaviour
MaxInflight == 2    \* unresolved status requests per consumer
MaxOps == 2         \* saveAnalysisState / clearAnalysisState calls per behaviour
MaxItems == 2       \* characters / elements of a stored JSON string / array
MaxRows == 3        \* rows of a metric dataset handed to a derivation

\* ------------------------------------------------------- tracker: domains
\* The two components that call useAnalysisRun(state.runId).
Consumers == {"nav", "page"}
RunIds == {"A", "B"}
NULL == "<null>"
Terminal == {"succeeded", "failed"}
NonTerminal == {"queued", "running"}
\* error_message values a failed run can carry (null, empty, text)
ErrorMessages == {NULL, "", "boom"}
\* rejections of apiGet: an Error with a message, or a non-Error value
Rejections == {"Error:timeout", "nonError"}

NullRun == [id |-> NULL, status |-> NULL, error_message |-> NULL]

VARIABLES
    \* ---- useAnalysisRun, one instance per consumer
    runId,      \* consumer -> the runId argument of the current effect
    run,        \* consumer -> useState run (NullRun for null)
    error,      \* consumer -> useState error (NULL for null)
    timers,     \* armed setInterval handles: [c, id, active] is the
                \*   interval created by an effect closure of consumer c
                \*   for run id, with that closure's `active` flag
    epoch,      \* consumer -> number of effect cleanups so far
    inflight,   \* status requests awaiting resolution, each with the
                \*   `active` flag of the closure whose poll issued it
    server,     \* run id -> the run record held by the analysis service
    nfetch,     \* number of status requests issued so far
    \* ---- observation of the current subscription (history)
    issued,     \* consumer -> fetches issued by the current subscription
    nonterm,    \* consumer -> queued/running responses it has processed
    rejected,   \* consumer -> TRUE once one of its fetches was rejected
    seenTerminal, \* consumer -> TRUE once it processed succeeded/failed
    staleSeen,  \* consumer -> run id of a request of a superseded effect
                \*   closure whose resolution poll has handled (else NULL)
    \* ---- analysisStorage: the slot shared by the tabs of one origin
    slot,       \* window.localStorage item STORAGE_KEY (a raw value)
    pending,    \* tab -> the saveAnalysisState call it is executing
    listeners,  \* tab -> callbacks registered by subscribeAnalysisState
    unsubscribed, \* tab -> callbacks that are not subscribed: never passed
                \*   to subscribeAnalysisState, or their unsubscribe
                \*   function has been called since
    storageQ,   \* tab -> "storage" events fired at it, not yet dispatched
    nops,       \* number of save / clear calls started so far
    lastWrite,  \* field -> value of the latest completed write of it
    lastStore,  \* the storage step just taken
    applied,    \* the updates applied by the two-update scenario, in order
    loaded,     \* [done, value]: the result of the latest load
    \* ---- derivations: one evaluation of a pure function
    called,     \* the function that has been evaluated ("none" before)
    args,       \* its input
    result,     \* its value
    \* ---- the views of tab t1
    state,      \* tab -> callback -> useAnalysisState's state of the
                \*   consumer that registered the callback (the default
                \*   session while the consumer is not mounted)
    overviewPage, \* OverviewPage: metricsLoaded, loading, the dependency
                \*   values its effects last ran with, the loadMetrics
                \*   calls awaiting their responses
    fragilityPage \* FragilityPage: the repoId its load effect last ran
                \*   with, the load calls awaiting their responses (and
                \*   how many were made), the repository whose rows
                \*   setFragility stored, and the error state

trackerVars == <<runId, run, error, timers, epoch, inflight, server,
                 nfetch, issued, nonterm, rejected, seenTerminal, staleSeen>>

storeVars == <<slot, pending, listeners, unsubscribed, storageQ, nops,
               lastWrite, lastStore, applied, loaded>>

deriveVars == <<called, args, result>>

viewVars == <<state, overviewPage, fragilityPage>>

vars == <<trackerVars, storeVars, deriveVars, viewVars>>

\* ------------------------------------------------------ tracker: helpers
\* A poll that never tests `active`.
IsActiveAlways(r) == TRUE

\* `active` of the closure that issued r (set FALSE by the effect cleanup)
IsActive(r) == r.active

InflightFor(id) == {r \in inflight : r.id = id}

\* timer = setInterval(poll, pollMs) in a new (active) closure
Interval(c, id) == [c |-> c, id |-> id, active |-> TRUE]

\* if (timer) clearInterval(timer), run by the active closure of c
ClearInterval(c) == {t \in timers : ~(t.c = c /\ t.active)}

\* active = false in the closure of c that is active now
Deactivate(S, c) ==
    {IF x.c = c THEN [x EXCEPT !.active = FALSE] ELSE x : x \in S}

Slots == 1..MaxInflight
FreeSlots(c) == {k \in Slots : \A r \in inflight : ~(r.c = c /\ r.slot = k)}
CanFetch(c) == nfetch < MaxFetch /\ FreeSlots(c) # {}
Cleanups == epoch["nav"] + epoch["page"]

\* apiGet(`/api/analysis/${runId}`) called by poll
Request(c, active, id) ==
    [c |-> c,
     slot |-> CHOOSE k \in FreeSlots(c) : \A j \in FreeSlots(c) : k <= j,
     active |-> active, id |-> id, kind |-> "pending", data |-> NullRun]

\* A catch branch that resets the error instead of reporting it.
PollErrorTextCleared(rej) == NULL

\* err instanceof Error ? err.message : "Unable to poll status."
PollErrorText(rej) ==
    IF rej = "nonError" THEN "Unable to poll status." ELSE "timeout"

\* data.error_message || "Analysis failed."
FailedText(data) ==
    IF data.error_message = NULL \/ data.error_message = ""
    THEN "Analysis failed." ELSE data.error_message

\* ------------------------------------------------------- tracker: actions
\* The timers left by the cleanup of the active closure of c:
\* active = false; if (timer) clearInterval(timer).
Cleanup(c) == Deactivate(ClearInterval(c), c)

\* The cleanup of the previous closure, then the effect body for
\* runId = id in a new closure.
EffectBody(c, id) ==
    IF id = NULL
    THEN /\ run' = [run EXCEPT ![c] = NullRun]
         /\ error' = [error EXCEPT ![c] = NULL]
         /\ timers' = Cleanup(c)
         /\ inflight' = Deactivate(inflight, c)
         /\ issued' = [issued EXCEPT ![c] = 0]
         /\ UNCHANGED nfetch
    ELSE /\ CanFetch(c)
         /\ inflight' = Deactivate(inflight, c) \cup {Request(c, TRUE, id)}
         /\ nfetch' = nfetch + 1
         /\ timers' = Cleanup(c) \cup {Interval(c, id)}
         /\ issued' = [issued EXCEPT ![c] = 1]
         /\ UNCHANGED <<run, error>>

\* The runId argument changes: cleanup of the old effect, then the body.
ChangeRunId(c, id) ==
    /\ id # runId[c]
    /\ Cleanups < MaxResub
    /\ epoch' = [epoch EXCEPT ![c] = @ + 1]
    /\ runId' = [runId EXCEPT ![c] = id]
    /\ EffectBody(c, id)
    /\ nonterm' = [nonterm EXCEPT ![c] = 0]
    /\ rejected' = [rejected EXCEPT ![c] = FALSE]
    /\ seenTerminal' = [seenTerminal EXCEPT ![c] = FALSE]
    /\ UNCHANGED staleSeen
    /\ UNCHANGED storeVars
    /\ UNCHANGED deriveVars
    /\ UNCHANGED server

\* The consumer is torn down and mounted again with the same runId:
\* cleanup, fresh useState(null) values, then the effect body.
Remount(c) ==
    /\ runId[c] # NULL
    /\ Cleanups < MaxResub
    /\ CanFetch(c)
    /\ epoch' = [epoch EXCEPT ![c] = @ + 1]
    /\ run' = [run EXCEPT ![c] = NullRun]
    /\ error' = [error EXCEPT ![c] = NULL]
    /\ inflight' = Deactivate(inflight, c) \cup {Request(c, TRUE, runId[c])}
    /\ nfetch' = nfetch + 1
    /\ timers' = Cleanup(c) \cup {Interval(c, runId[c])}
    /\ issued' = [issued EXCEPT ![c] = 1]
    /\ nonterm' = [nonterm EXCEPT ![c] = 0]
    /\ rejected' = [rejected EXCEPT ![c] = FALSE]
    /\ seenTerminal' = [seenTerminal EXCEPT ![c] = FALSE]
    /\ UNCHANGED staleSeen
    /\ UNCHANGED storeVars
    /\ UNCHANGED deriveVars
    /\ UNCHANGED <<runId, server>>

\* An armed interval fires: its closure's poll() issues the next request
\* for the runId that closure captured.
Tick(t) ==
    /\ t \in timers
    /\ CanFetch(t.c)
    /\ inflight' = inflight \cup {Request(t.c, t.active, t.id)}
    /\ nfetch' = nfetch + 1
    /\ issued' = IF t.active
                 THEN [issued EXCEPT ![t.c] = @ + 1] ELSE issued
    /\ UNCHANGED staleSeen
    /\ UNCHANGED storeVars
    /\ UNCHANGED deriveVars
    /\ UNCHANGED <<runId, run, error, timers, epoch, server,
                   nonterm, rejected, seenTerminal>>

\* The analysis service moves a run forward.
ServerAdvance(id) ==
    /\ \/ /\ server[id].status = "queued"
          /\ server' = [server EXCEPT ![id].status = "running"]
       \/ /\ server[id].status = "running"
          /\ server' = [server EXCEPT ![id].status = "succeeded"]
       \/ /\ server[id].status = "running"
          /\ \E m \in ErrorMessages :
                server' = [server EXCEPT ![id] =
                    [id |-> id, status |-> "failed", error_message |-> m]]
    /\ UNCHANGED staleSeen
    /\ UNCHANGED storeVars
    /\ UNCHANGED deriveVars
    /\ UNCHANGED <<runId, run, error, timers, epoch, inflight,
                   nfetch, issued, nonterm, rejected, seenTerminal>>

\* The service answers a request with the run as it is now.
ServerRespond(r) ==
    /\ r \in inflight
    /\ r.kind = "pending"
    /\ inflight' = (inflight \ {r}) \cup
           {[r EXCEPT !.kind = "ok", !.data = server[r.id]]}
    /\ UNCHANGED staleSeen
    /\ UNCHANGED storeVars
    /\ UNCHANGED deriveVars
    /\ UNCHANGED <<runId, run, error, timers, epoch, server,
                   nfetch, issued, nonterm, rejected, seenTerminal>>

\* poll resumes after `await apiGet(...)` with data.
PollResolved(r) ==
    /\ r \in inflight
    /\ r.kind = "ok"
    /\ inflight' = inflight \ {r}
    /\ IF ~IsActive(r)
       THEN UNCHANGED <<run, error, timers, nonterm, seenTerminal>>
       ELSE /\ run' = [run EXCEPT ![r.c] = r.data]
            /\ error' = IF r.data.status = "failed"
                        THEN [error EXCEPT ![r.c] = FailedText(r.data)]
                        ELSE error
            /\ timers' = IF r.data.status \in Terminal
                         THEN ClearInterval(r.c)
                         ELSE timers
            /\ nonterm' = IF r.data.status \in NonTerminal
                          THEN [nonterm EXCEPT ![r.c] = @ + 1]
                          ELSE nonterm
            /\ seenTerminal' = IF r.data.status \in Terminal
                               THEN [seenTerminal EXCEPT ![r.c] = TRUE]
                               ELSE seenTerminal
    /\ staleSeen' = IF IsActive(r) THEN staleSeen
                    ELSE [staleSeen EXCEPT ![r.c] = r.id]
    /\ UNCHANGED storeVars
    /\ UNCHANGED deriveVars
    /\ UNCHANGED <<runId, epoch, server, nfetch, issued, rejected>>

\* The request fails (network, non-2xx, parse): apiGet rejects and poll
\* resumes in its catch branch.
PollRejected(r) ==
    /\ r \in inflight
    /\ r.kind = "pending"
    /\ inflight' = inflight \ {r}
    /\ IF ~IsActive(r)
       THEN UNCHANGED <<error, rejected>>
       ELSE /\ \E rej \in Rejections :
                 error' = [error EXCEPT ![r.c] = PollErrorText(rej)]
            /\ rejected' = [rejected EXCEPT ![r.c] = TRUE]
    /\ staleSeen' = IF IsActive(r) THEN staleSeen
                    ELSE [staleSeen EXCEPT ![r.c] = r.id]
    /\ UNCHANGED storeVars
    /\ UNCHANGED deriveVars
    /\ UNCHANGED <<runId, run, timers, epoch, server, nfetch,
                   issued, nonterm, seenTerminal>>

\* --------------------------------------------------- storage: domains
Tabs == {"t1", "t2"}
Listeners == {"L1", "L2"}
Fields == {"repoId", "runId", "repoUrl", "branch"}
\* property order of { ...defaultState, ... }
FieldOrder == <<"repoId", "runId", "repoUrl", "branch">>
Vals == {NULL, "a", "b"}
EmptyObject == [k \in {} |-> NULL]

\* Partial<AnalysisState>: any subset of the fields, each string | null
Partials == UNION {[D -> Vals] : D \in SUBSET Fields}

defaultState ==
    [repoId |-> NULL, runId |-> NULL, repoUrl |-> NULL, branch |-> NULL]

\* { ...a, ...b }
Spread(a, b) ==
    [k \in DOMAIN a \cup DOMAIN b |-> IF k \in DOMAIN b THEN b[k] ELSE a[k]]

\* ---- stored text.  A raw value is [kind, fields, items]:
\*   absent   getItem returns null        empty    the empty string
\*   garbage  text JSON.parse rejects     null / number / true   JSON scalars
\*   string   JSON string, items = its characters
\*   array    JSON array,  items = its elements (as strings)
\*   object   JSON object, fields = its <<key, token>> members in order
Raw(kind, fields, items) ==
    [kind |-> kind, fields |-> fields, items |-> items]
Absent == Raw("absent", <<>>, <<>>)

\* JSON token of a field value: null, or a quoted string
Encode(v) == IF v = NULL THEN <<"null">> ELSE <<"str", v>>
Decode(tok) == IF tok[1] = "null" THEN NULL ELSE tok[2]

\* JSON.stringify(next) for an object whose keys are session fields
Stringify(obj) ==
    LET keys == SelectSeq(FieldOrder, LAMBDA k : k \in DOMAIN obj)
    IN  Raw("object",
            [i \in 1..Len(keys) |-> <<keys[i], Encode(obj[keys[i]])>>],
            <<>>)

IndexKey(i) == ToString(i - 1)

\* The own enumerable properties of JSON.parse(raw), which are what
\* { ...defaultState, ...parsed } copies.
ParsedProps(raw) ==
    CASE raw.kind = "object" ->
            [k \in {raw.fields[i][1] : i \in 1..Len(raw.fields)} |->
                Decode((CHOOSE m \in {raw.fields[i] : i \in 1..Len(raw.fields)} :
                           m[1] = k)[2])]
      [] raw.kind \in {"string", "array"} ->
            [k \in {IndexKey(i) : i \in 1..Len(raw.items)} |->
                raw.items[CHOOSE i \in 1..Len(raw.items) : IndexKey(i) = k]]
      [] OTHER -> EmptyObject

\* loadAnalysisState(), given what getItem(STORAGE_KEY) returns
loadAnalysisState(raw) ==
    IF raw.kind \in {"absent", "empty"}
    THEN defaultState
    ELSE IF raw.kind = "garbage"
         THEN defaultState
         ELSE Spread(defaultState, ParsedProps(raw))

\* A save that writes the update over the defaults without reading the slot.
SavedSlotWriteOnly(raw, update) == Stringify(Spread(defaultState, update))

\* What one uninterrupted saveAnalysisState(update) leaves in the slot.
SavedSlot(raw, update) == Stringify(Spread(loadAnalysisState(raw), update))

\* Contents the slot can hold when the page loads: every serialized
\* partial session, and text that is not a serialized session object.
ItemSeqs == UNION {[1..n -> {"a", "b"}] : n \in 0..MaxItems}
RawValues ==
    {Stringify(p) : p \in Partials}
    \cup {Absent, Raw("empty", <<>>, <<>>), Raw("garbage", <<>>, <<>>),
          Raw("null", <<>>, <<>>), Raw("number", <<>>, <<>>),
          Raw("true", <<>>, <<>>)}
    \cup {Raw("string", <<>>, cs) : cs \in ItemSeqs}
    \cup {Raw("array", <<>>, es) : es \in ItemSeqs}

Idle == [busy |-> FALSE, update |-> EmptyObject, current |-> defaultState]

NoCalls == [t \in Tabs |-> [l \in Listeners |-> 0]]
StoreStep(op, t, changed, calls, fired) ==
    [op |-> op, tab |-> t, changed |-> changed, calls |-> calls,
     fired |-> fired]

\* window.dispatchEvent(new Event(EVENT_NAME)) in tab t: every handler
\* registered in that window runs once.
DispatchCalls(t) ==
    [tt \in Tabs |-> [l \in Listeners |->
        IF tt = t /\ l \in listeners[t] THEN 1 ELSE 0]]

\* A write that fires no "storage" event.
StorageFiredNever(t, changed) == [tt \in Tabs |-> 0]

\* The "storage" events a write of tab t fires: one at every other tab,
\* and only when the stored value changed.
StorageFired(t, changed) ==
    [tt \in Tabs |-> IF tt # t /\ changed THEN 1 ELSE 0]

\* A handleSubmit that reads the repository id from a property the
\* response does not have: JSON.stringify drops the undefined repoId.
SubmitUpdateNoRepo(repositoryId, id, repoUrl, branch) ==
    [runId |-> id, repoUrl |-> repoUrl, branch |-> branch]

\* The update handleSubmit passes to update(): repoId and runId of the
\* response, the submitted URL, and the trimmed branch or null.
SubmitUpdate(repositoryId, id, repoUrl, branch) ==
    [repoId |-> repositoryId, runId |-> id, repoUrl |-> repoUrl,
     branch |-> branch]

\* the updates of two analysis submissions
Submissions ==
    {SubmitUpdate("a", "a", "a", NULL), SubmitUpdate("b", "b", "b", "b")}

\* The updates the tabs apply in the shared-slot specification: the empty
\* update, single-field updates, and two whole submissions.
TabUpdates ==
    {u \in Partials : Cardinality(DOMAIN u) <= 1 /\ \A f \in DOMAIN u : u[f] # "b"}
    \cup Submissions

\* --------------------------------------------------- storage: actions
\* saveAnalysisState(update), first half: const current = loadAnalysisState()
SaveRead(t, u) ==
    /\ ~pending[t].busy
    /\ nops < MaxOps
    /\ nops' = nops + 1
    /\ pending' = [pending EXCEPT ![t] =
           [busy |-> TRUE, update |-> u, current |-> loadAnalysisState(slot)]]
    /\ lastStore' = StoreStep("read", t, FALSE, NoCalls, StorageFired(t, FALSE))
    /\ UNCHANGED <<slot, listeners, storageQ, lastWrite, applied, loaded>>
    /\ UNCHANGED unsubscribed
    /\ UNCHANGED trackerVars
    /\ UNCHANGED deriveVars

\* saveAnalysisState(update), second half: next = { ...current, ...update };
\* setItem(STORAGE_KEY, JSON.stringify(next)); dispatchEvent; return next
SaveWrite(t) ==
    /\ pending[t].busy
    /\ LET next == Spread(pending[t].current, pending[t].update)
           text == Stringify(next)
           changed == text # slot
       IN  /\ slot' = text
           /\ storageQ' = [tt \in Tabs |->
                  storageQ[tt] + StorageFired(t, changed)[tt]]
           /\ lastStore' = StoreStep("save", t, changed, DispatchCalls(t),
                                     StorageFired(t, changed))
           /\ lastWrite' = [f \in Fields |->
                  IF f \in DOMAIN pending[t].update
                  THEN pending[t].update[f] ELSE lastWrite[f]]
    /\ pending' = [pending EXCEPT ![t] = Idle]
    /\ UNCHANGED <<listeners, nops, applied, loaded>>
    /\ UNCHANGED unsubscribed
    /\ UNCHANGED trackerVars
    /\ UNCHANGED deriveVars

\* clearAnalysisState()
Clear(t) ==
    /\ ~pending[t].busy
    /\ nops < MaxOps
    /\ nops' = nops + 1
    /\ LET changed == slot # Absent
       IN  /\ slot' = Absent
           /\ storageQ' = [tt \in Tabs |->
                  storageQ[tt] + StorageFired(t, changed)[tt]]
           /\ lastStore' = StoreStep("clear", t, changed, DispatchCalls(t),
                                     StorageFired(t, changed))
    /\ lastWrite' = [f \in Fields |-> NULL]
    /\ UNCHANGED <<pending, listeners, applied, loaded>>
    /\ UNCHANGED unsubscribed
    /\ UNCHANGED trackerVars
    /\ UNCHANGED deriveVars

\* subscribeAnalysisState(callback)
Subscribe(t, l) ==
    /\ ~pending[t].busy
    /\ l \notin listeners[t]
    /\ listeners' = [listeners EXCEPT ![t] = @ \cup {l}]
    /\ unsubscribed' = [unsubscribed EXCEPT ![t] = @ \ {l}]
    /\ lastStore' = StoreStep("subscribe", t, FALSE, NoCalls,
                              StorageFired(t, FALSE))
    /\ UNCHANGED <<slot, pending, storageQ, nops, lastWrite, applied, loaded>>
    /\ UNCHANGED trackerVars
    /\ UNCHANGED deriveVars

\* An unsubscribe whose removeEventListener calls match no registered
\* handler.
RemoveListenerNone(S, l) == S

\* window.removeEventListener(EVENT_NAME, handler);
\* window.removeEventListener("storage", handler)
RemoveListener(S, l) == S \ {l}

\* the unsubscribe function returned by subscribeAnalysisState
Unsubscribe(t, l) ==
    /\ ~pending[t].busy
    /\ l \in listeners[t]
    /\ listeners' = [listeners EXCEPT ![t] = RemoveListener(@, l)]
    /\ unsubscribed' = [unsubscribed EXCEPT ![t] = @ \cup {l}]
    /\ lastStore' = StoreStep("unsubscribe", t, FALSE, NoCalls,
                              StorageFired(t, FALSE))
    /\ UNCHANGED <<slot, pending, storageQ, nops, lastWrite, applied, loaded>>
    /\ UNCHANGED trackerVars
    /\ UNCHANGED deriveVars

\* The browser dispatches a queued "storage" event in tab t: every handler
\* registered in that window runs once.
DeliverStorage(t) ==
    /\ ~pending[t].busy
    /\ storageQ[t] > 0
    /\ storageQ' = [storageQ EXCEPT ![t] = @ - 1]
    /\ lastStore' = StoreStep("storage", t, FALSE, DispatchCalls(t),
                              StorageFired(t, FALSE))
    /\ UNCHANGED <<slot, pending, listeners, nops, lastWrite, applied, loaded>>
    /\ UNCHANGED unsubscribed
    /\ UNCHANGED trackerVars
    /\ UNCHANGED deriveVars

\* A caller in tab t reads the session.
Load(t) ==
    /\ ~pending[t].busy
    /\ loaded' = [done |-> TRUE, value |-> loadAnalysisState(slot)]
    /\ lastStore' = StoreStep("load", t, FALSE, NoCalls, StorageFired(t, FALSE))
    /\ UNCHANGED <<slot, pending, listeners, storageQ, nops, lastWrite, applied>>
    /\ UNCHANGED unsubscribed
    /\ UNCHANGED trackerVars
    /\ UNCHANGED deriveVars

\* saveAnalysisState(update) run to completion in the only open tab; the
\* scenario applies two updates.
saveAnalysisState(t, u) ==
    /\ ~pending[t].busy
    /\ Len(applied) < 2
    /\ LET text == SavedSlot(slot, u)
           changed == text # slot
       IN  /\ slot' = text
           /\ storageQ' = [tt \in Tabs |->
                  storageQ[tt] + StorageFired(t, changed)[tt]]
           /\ lastStore' = StoreStep("save", t, changed, DispatchCalls(t),
                                     StorageFired(t, changed))
    /\ lastWrite' = [f \in Fields |->
           IF f \in DOMAIN u THEN u[f] ELSE lastWrite[f]]
    /\ applied' = Append(applied, u)
    /\ UNCHANGED <<pending, listeners, nops, loaded>>
    /\ UNCHANGED unsubscribed
    /\ UNCHANGED trackerVars
    /\ UNCHANGED deriveVars

\* ----------------------------------------------------- storage: specs
StoreInit ==
    /\ slot = Absent
    /\ pending = [t \in Tabs |-> Idle]
    /\ listeners = [t \in Tabs |-> {}]
    /\ unsubscribed = [t \in Tabs |-> Listeners]
    /\ storageQ = [t \in Tabs |-> 0]
    /\ nops = 0
    /\ lastWrite = [f \in Fields |-> NULL]
    /\ lastStore = StoreStep("init", "t1", FALSE, NoCalls,
                             StorageFired("t1", FALSE))
    /\ applied = <<>>
    /\ loaded = [done |-> FALSE, value |-> defaultState]

\* ---------------------------------------------------------- tracker: spec
\* Both consumers are rendered with the initial session (runId null).
TrackerInit ==
    /\ runId = [c \in Consumers |-> NULL]
    /\ run = [c \in Consumers |-> NullRun]
    /\ error = [c \in Consumers |-> NULL]
    /\ timers = {}
    /\ epoch = [c \in Consumers |-> 0]
    /\ inflight = {}
    /\ server = [id \in RunIds |->
                   [id |-> id, status |-> "queued", error_message |-> NULL]]
    /\ nfetch = 0
    /\ issued = [c \in Consumers |-> 0]
    /\ nonterm = [c \in Consumers |-> 0]
    /\ rejected = [c \in Consumers |-> FALSE]
    /\ seenTerminal = [c \in Consumers |-> FALSE]
    /\ staleSeen = [c \in Consumers |-> NULL]

\* No derivation has been evaluated.
DeriveInit ==
    /\ called = "none"
    /\ args = NULL
    /\ result = NULL

\* No view is mounted.
NoRequests == {}

OverviewInit ==
    [metricsLoaded |-> FALSE, loading |-> FALSE, repoDeps |-> NULL,
     metricsDeps |-> <<NULL, NullRun, FALSE>>, requests |-> NoRequests]

FragilityInit ==
    [repoDeps |-> NULL, requests |-> NoRequests, loads |-> 0,
     fragility |-> NULL, error |-> NULL]

ViewInit ==
    /\ state = [t \in Tabs |-> [l \in Listeners |-> defaultState]]
    /\ overviewPage = OverviewInit
    /\ fragilityPage = FragilityInit

Init == TrackerInit /\ StoreInit /\ DeriveInit /\ ViewInit

Next ==
    \/ \E c \in Consumers, id \in RunIds \cup {NULL} : ChangeRunId(c, id)
          /\ UNCHANGED viewVars
    \/ \E c \in Consumers : Remount(c)
          /\ UNCHANGED viewVars
    \/ \E t \in timers : Tick(t)
          /\ UNCHANGED viewVars
    \/ \E id \in RunIds : ServerAdvance(id)
          /\ UNCHANGED viewVars
    \/ \E r \in inflight : ServerRespond(r)
          /\ UNCHANGED viewVars
    \/ \E r \in inflight : PollResolved(r)
          /\ UNCHANGED viewVars
    \/ \E r \in inflight : PollRejected(r)
          /\ UNCHANGED viewVars

Spec == Init /\ [][Next]_vars

\* A single consumer of useAnalysisRun (the overview page alone).
NextOne ==
    \/ \E id \in RunIds \cup {NULL} : ChangeRunId("page", id)
          /\ UNCHANGED viewVars
    \/ Remount("page")
          /\ UNCHANGED viewVars
    \/ \E t \in timers : Tick(t)
          /\ UNCHANGED viewVars
    \/ \E id \in RunIds : ServerAdvance(id)
          /\ UNCHANGED viewVars
    \/ \E r \in inflight : ServerRespond(r)
          /\ UNCHANGED viewVars
    \/ \E r \in inflight : PollResolved(r)
          /\ UNCHANGED viewVars
    \/ \E r \in inflight : PollRejected(r)
          /\ UNCHANGED viewVars

SpecOne == Init /\ [][NextOne]_vars

\* Two tabs of one origin share the slot.
NextStore ==
    \/ \E t \in Tabs, u \in TabUpdates : SaveRead(t, u)
          /\ UNCHANGED viewVars
    \/ \E t \in Tabs : SaveWrite(t)
          /\ UNCHANGED viewVars
    \/ \E t \in Tabs : Clear(t)
          /\ UNCHANGED viewVars
    \/ \E t \in Tabs, l \in Listeners : Subscribe(t, l)
          /\ UNCHANGED viewVars
    \/ \E t \in Tabs, l \in Listeners : Unsubscribe(t, l)
          /\ UNCHANGED viewVars
    \/ \E t \in Tabs : DeliverStorage(t)
          /\ UNCHANGED viewVars

SpecStore == Init /\ [][NextStore]_vars

\* One tab applies two updates to an empty slot and reads the session.
NextMerge ==
    \/ \E u \in Partials : saveAnalysisState("t1", u)
          /\ UNCHANGED viewVars
    \/ Load("t1")
          /\ UNCHANGED viewVars

SpecMerge == Init /\ [][NextMerge]_vars

\* The page loads with arbitrary text in the slot and reads the session.
InitLoad ==
    /\ TrackerInit
    /\ slot \in RawValues
    /\ pending = [t \in Tabs |-> Idle]
    /\ listeners = [t \in Tabs |-> {}]
    /\ unsubscribed = [t \in Tabs |-> Listeners]
    /\ storageQ = [t \in Tabs |-> 0]
    /\ nops = 0
    /\ lastWrite = [f \in Fields |-> NULL]
    /\ lastStore = StoreStep("init", "t1", FALSE, NoCalls,
                             StorageFired("t1", FALSE))
    /\ applied = <<>>
    /\ loaded = [done |-> FALSE, value |-> defaultState]
    /\ DeriveInit
    /\ ViewInit

NextLoad == \E t \in Tabs : Load(t) /\ UNCHANGED viewVars

SpecLoad == InitLoad /\ [][NextLoad]_vars

\* -------------------------------------------------- teardown: spec
\* A view of tab t1 that uses useAnalysisState and useAnalysisRun is
\* mounted: its callback L1 is subscribed to the slot, and its tracker
\* effect has run for run A (first request issued, interval armed).
InitTeardown ==
    /\ runId = [c \in Consumers |-> IF c = "page" THEN "A" ELSE NULL]
    /\ run = [c \in Consumers |-> NullRun]
    /\ error = [c \in Consumers |-> NULL]
    /\ timers = {Interval("page", "A")}
    /\ epoch = [c \in Consumers |-> IF c = "page" THEN 1 ELSE 0]
    /\ inflight = {[c |-> "page", slot |-> 1, active |-> TRUE, id |-> "A",
                    kind |-> "pending", data |-> NullRun]}
    /\ server = [id \in RunIds |->
                   [id |-> id, status |-> "queued", error_message |-> NULL]]
    /\ nfetch = 1
    /\ issued = [c \in Consumers |-> IF c = "page" THEN 1 ELSE 0]
    /\ nonterm = [c \in Consumers |-> 0]
    /\ rejected = [c \in Consumers |-> FALSE]
    /\ seenTerminal = [c \in Consumers |-> FALSE]
    /\ staleSeen = [c \in Consumers |-> NULL]
    /\ slot = Absent
    /\ pending = [t \in Tabs |-> Idle]
    /\ listeners = [t \in Tabs |-> IF t = "t1" THEN {"L1"} ELSE {}]
    /\ unsubscribed = [t \in Tabs |->
                         IF t = "t1" THEN {"L2"} ELSE Listeners]
    /\ storageQ = [t \in Tabs |-> 0]
    /\ nops = 0
    /\ lastWrite = [f \in Fields |-> NULL]
    /\ lastStore = StoreStep("subscribe", "t1", FALSE, NoCalls,
                             StorageFired("t1", FALSE))
    /\ applied = <<>>
    /\ loaded = [done |-> FALSE, value |-> defaultState]
    /\ DeriveInit
    /\ ViewInit

\* The view's subscriptions are torn down and set up again (the run id of
\* the session being A or none) while the session is written from both
\* tabs and the poller runs against a failing network.
NextTeardown ==
    \/ \E l \in Listeners : Subscribe("t1", l)
          /\ UNCHANGED viewVars
    \/ \E l \in Listeners : Unsubscribe("t1", l)
          /\ UNCHANGED viewVars
    \/ \E t \in Tabs :
          saveAnalysisState(t, SubmitUpdate("a", "a", "a", NULL))
          /\ UNCHANGED viewVars
    \/ \E t \in Tabs : Clear(t)
          /\ UNCHANGED viewVars
    \/ DeliverStorage("t1")
          /\ UNCHANGED viewVars
    \/ \E id \in {"A", NULL} : ChangeRunId("page", id)
          /\ UNCHANGED viewVars
    \/ \E t \in timers : Tick(t)
          /\ UNCHANGED viewVars
    \/ \E r \in inflight : PollRejected(r)
          /\ UNCHANGED viewVars

SpecTeardown == InitTeardown /\ [][NextTeardown]_vars

\* ------------------------------------------------------ status tone
\* status values a run record can carry: the four of AnalysisRun and
\* values the type does not list
Statuses ==
    Terminal \cup NonTerminal
    \cup {"", "QUEUED", "Succeeded", "cancelled", "pending"}

\* the values of the hook's `run`: null, or a run record
RunValues ==
    {NullRun}
    \cup [id : RunIds, status : Statuses, error_message : ErrorMessages]

StatusTone(label, className) == [label |-> label, className |-> className]

\* A statusTone without the succeeded branch.
statusToneNoSucceeded(r) ==
    IF r = NullRun THEN StatusTone("idle", "status-idle")
    ELSE IF r.status = "queued" THEN StatusTone("queued", "status-queued")
    ELSE IF r.status = "running"
         THEN StatusTone("analyzing", "status-running")
    ELSE StatusTone("failed", "status-failed")

\* statusTone = useMemo(() => ..., [run])
statusTone(r) ==
    IF r = NullRun THEN StatusTone("idle", "status-idle")
    ELSE IF r.status = "queued" THEN StatusTone("queued", "status-queued")
    ELSE IF r.status = "running"
         THEN StatusTone("analyzing", "status-running")
    ELSE IF r.status = "succeeded"
         THEN StatusTone("complete", "status-succeeded")
    ELSE StatusTone("failed", "status-failed")

\* The hook renders with some run and computes the tone.
ComputeTone ==
    /\ called = "none"
    /\ called' = "statusTone"
    /\ result' = statusTone(args)
    /\ UNCHANGED args
    /\ UNCHANGED <<trackerVars, storeVars, viewVars>>

InitTone ==
    /\ TrackerInit
    /\ StoreInit
    /\ ViewInit
    /\ called = "none"
    /\ args \in RunValues
    /\ result = NULL

NextTone == ComputeTone

SpecTone == InitTone /\ [][NextTone]_vars

\* ------------------------------------------- commit classification
UNDEFINED == "<undefined>"
\* a function object, what a lookup of an inherited property name yields
FUNCTION == "<function>"

CLASSIFICATION_NORMALIZE ==
    [bugfix |-> "fix", feature |-> "feat", maintenance |-> "build"]

PREFIX_CLASSIFICATION ==
    [feat |-> "feat", feature |-> "feat", fix |-> "fix", bugfix |-> "fix",
     docs |-> "docs", doc |-> "docs", style |-> "style", styles |-> "style",
     refactor |-> "refactor", perf |-> "perf", test |-> "test",
     tests |-> "test", build |-> "build", ci |-> "ci", revert |-> "revert",
     chore |-> "chore"]

\* table[key] on an object literal: an own property, else what
\* Object.prototype supplies under that name, else undefined
Lookup(table, key) ==
    IF key \in DOMAIN table THEN table[key]
    ELSE IF key = "constructor" THEN FUNCTION
    ELSE UNDEFINED

\* String.prototype.toLowerCase on the strings used here
toLowerCase(str) ==
    CASE str = "FIX" -> "fix"
      [] str = "Tests" -> "tests"
      [] str = "Unknown" -> "unknown"
      [] str = "FEAT" -> "feat"
      [] OTHER -> str

\* A message is a sequence of tokens: a token is a maximal run of word
\* characters (\w+), or one of the characters ( ) ! : and the blank.
WordTokens == {"fix", "FIX", "Tests", "wip", "api", "constructor"}
Punctuation == {"(", ")", "!", ":", " "}

\* the message texts: an optional first word or blank, then a scope-like
\* part, then bangs, then a colon or none, then a tail
MessageHeads == {<<>>, <<" ">>} \cup {<<w>> : w \in WordTokens \ {"api"}}
MessageScopes ==
    {<<>>, <<"(", ")">>, <<"(", "api", ")">>, <<"(", "api">>,
     <<"(", "(", ")">>, <<"(", "api", " ", "wip", ")">>}
MessageBangs == {<<>>, <<"!">>, <<"!", "!">>}
MessageColons == {<<>>, <<":">>}
MessageTails == {<<>>, <<" ", "wip">>}
Messages ==
    {h \o sc \o b \o c \o tl :
        h \in MessageHeads, sc \in MessageScopes, b \in MessageBangs,
        c \in MessageColons, tl \in MessageTails}

\* the values of CommitRow.classification (absent: null)
StoredClassifications ==
    {NULL, "", "unknown", "Unknown", "feat", "FEAT", "bugfix", "wip",
     "constructor"}

CommitRows == [classification : StoredClassifications, message : Messages]

NoMatch == <<>>

\* the position after (?:\([^)]+\))? tried at position i: past a
\* parenthesised part with at least one token that is not ")", else i
AfterScope(msg, i) ==
    IF i <= Len(msg) /\ msg[i] = "("
       /\ \E j \in (i + 2)..Len(msg) :
             msg[j] = ")" /\ \A k \in (i + 1)..(j - 1) : msg[k] # ")"
    THEN 1 + CHOOSE j \in (i + 2)..Len(msg) :
                 msg[j] = ")" /\ \A k \in (i + 1)..(j - 1) : msg[k] # ")"
    ELSE i

\* the position after (?:!)? tried at position i
AfterBang(msg, i) == IF i <= Len(msg) /\ msg[i] = "!" THEN i + 1 ELSE i

\* A prefix pattern without the scope group: /^(\w+)(?:!)?:/
MatchPrefixNoScope(msg) ==
    IF Len(msg) = 0 \/ msg[1] \notin {toLowerCase(w) : w \in WordTokens}
    THEN NoMatch
    ELSE LET p == AfterBang(msg, 2)
         IN  IF p <= Len(msg) /\ msg[p] = ":" THEN <<msg[1]>> ELSE NoMatch

\* msg.match(CONVENTIONAL_PREFIX) for /^(\w+)(?:\([^)]+\))?(?:!)?:/ on a
\* lower-cased message: <<match[1]>>, or NoMatch for null.  Each optional
\* group can only be skipped when it does not match here, because the
\* token it would skip is none of the tokens that may follow.
MatchPrefix(msg) ==
    IF Len(msg) = 0 \/ msg[1] \notin {toLowerCase(w) : w \in WordTokens}
    THEN NoMatch
    ELSE LET p == AfterBang(msg, AfterScope(msg, 2))
         IN  IF p <= Len(msg) /\ msg[p] = ":" THEN <<msg[1]>> ELSE NoMatch

deriveClassification(commit) ==
    LET stored == IF commit.classification = NULL THEN "unknown"
                  ELSE toLowerCase(commit.classification)
        looked == Lookup(CLASSIFICATION_NORMALIZE, stored)
        normalized == IF looked = UNDEFINED THEN stored ELSE looked
        lowered == [i \in 1..Len(commit.message) |->
                       toLowerCase(commit.message[i])]
        match == MatchPrefix(lowered)
        mapped == IF match = NoMatch THEN UNDEFINED
                  ELSE Lookup(PREFIX_CLASSIFICATION, match[1])
    IN  IF normalized # "unknown" THEN normalized
        ELSE IF match # NoMatch /\ mapped # UNDEFINED THEN mapped
        ELSE normalized

\* A commit row is classified.
Classify ==
    /\ called = "none"
    /\ called' = "deriveClassification"
    /\ result' = deriveClassification(args)
    /\ UNCHANGED args
    /\ UNCHANGED <<trackerVars, storeVars, viewVars>>

InitClassify ==
    /\ TrackerInit
    /\ StoreInit
    /\ ViewInit
    /\ called = "none"
    /\ args \in CommitRows
    /\ result = NULL

NextClassify == Classify

SpecClassify == InitClassify /\ [][NextClassify]_vars

\* ------------------------------------------------ metric derivations
\* the sequences over S with at most MaxRows elements
RowSeqs(S) == UNION {[1..n -> S] : n \in 0..MaxRows}

\* A sort call that leaves the array as it is.
SortNone(xs, cmp) == xs

\* the elements of an array
Elements(xs) == {xs[i] : i \in 1..Len(xs)}

\* [...xs].sort(cmp) for a consistent comparator, given as the function
\* cmp[a, b] on the elements: Array.prototype.sort is stable, so the
\* element at input position i goes behind every element that compares
\* lower and behind the equal ones that precede it.
Sort(xs, cmp) ==
    LET n == Len(xs)
        Rank(i) ==
            1 + Cardinality({j \in 1..n :
                    \/ cmp[xs[j], xs[i]] < 0
                    \/ cmp[xs[j], xs[i]] = 0 /\ j < i})
    IN  [p \in 1..n |-> xs[CHOOSE i \in 1..n : Rank(i) = p]]

\* (a, b) => a - b, on the numbers of S
Ascending(S) == [a \in S, b \in S |-> a - b]

\* pick(ratio): sorted[Math.floor((sorted.length - 1) * ratio)] ?? 0, the
\* ratio given in tenths (5 for 0.5, 9 for 0.9); the floating-point
\* product is at or above its exact value, so the floor is the exact one
pick(sorted, tenths) ==
    LET index == ((Len(sorted) - 1) * tenths) \div 10
    IN  IF index + 1 \in 1..Len(sorted) THEN sorted[index + 1] ELSE 0

\* fragilityStats / nestingStats / shareStats: null for an empty sample
fragilityStats(values) ==
    IF Len(values) = 0 THEN NULL
    ELSE LET sorted == Sort(values, Ascending(Elements(values)))
         IN  [total |-> Len(sorted),
              min |-> sorted[1],
              max |-> sorted[Len(sorted)],
              median |-> pick(sorted, 5),
              p90 |-> pick(sorted, 9)]

\* the numeric samples: toNumber(fragility_index) in hundredths
SampleValues == {0, 25, 50, 100}

ComputeStats ==
    /\ called = "none"
    /\ called' = "fragilityStats"
    /\ result' = fragilityStats(args)
    /\ UNCHANGED args
    /\ UNCHANGED <<trackerVars, storeVars, viewVars>>

InitStats ==
    /\ TrackerInit
    /\ StoreInit
    /\ ViewInit
    /\ called = "none"
    /\ args \in RowSeqs(SampleValues)
    /\ result = NULL

NextStats == ComputeStats

SpecStats == InitStats /\ [][NextStats]_vars

\* ---- banding.  Fragility index and contribution share are in
\* hundredths (0.25 is 25, 1.01 is 101); nesting depth is an integer.
POSITIVE_INFINITY == 1000000

Band(label, min, max) == [label |-> label, min |-> min, max |-> max]

\* A fragility table whose last band ends at 1.0.
FragilityBandTableTo1 ==
    <<Band("Low (0-0.25)", 0, 25), Band("Guarded (0.25-0.5)", 25, 50),
      Band("High (0.5-0.75)", 50, 75), Band("Severe (0.75-1.0)", 75, 100)>>

\* const bands of fragilityBands
FragilityBandTable ==
    <<Band("Low (0-0.25)", 0, 25), Band("Guarded (0.25-0.5)", 25, 50),
      Band("High (0.5-0.75)", 50, 75), Band("Severe (0.75-1.0)", 75, 101)>>

\* const bands of shareBands
ShareBandTable ==
    <<Band("Balanced 0-40%", 0, 40), Band("Concentrated 40-60%", 40, 60),
      Band("High 60-80%", 60, 80), Band("Critical 80-100%", 80, 101)>>

\* const bands of nestingBands
NestingBandTable ==
    <<Band("Shallow 0-2", 0, 3), Band("Moderate 3-5", 3, 6),
      Band("Deep 6-8", 6, 9), Band("Severe 9+", 9, POSITIVE_INFINITY)>>

\* value >= band.min && value < band.max
InBand(value, band) == value >= band.min /\ value < band.max

\* bands.map((band) => ({ ...band, count, percent })), or [] for an empty
\* sample; percent = (count / total) * 100 is kept as a fraction
BandCounts(bands, values) ==
    IF Len(values) = 0 THEN <<>>
    ELSE [b \in 1..Len(bands) |->
            LET count == Cardinality({i \in 1..Len(values) :
                                         InBand(values[i], bands[b])})
            IN  [label |-> bands[b].label, min |-> bands[b].min,
                 max |-> bands[b].max, count |-> count,
                 percent |-> [num |-> count * 100, den |-> Len(values)]]]

fragilityBands(values) == BandCounts(FragilityBandTable, values)
shareBands(values) == BandCounts(ShareBandTable, values)
nestingBands(values) == BandCounts(NestingBandTable, values)

\* values of the declared domains, among them every band boundary
UnitValues == {0, 25, 40, 50, 60, 75, 80, 100}
NestingValues == {0, 2, 3, 6, 9, 40}

BandInputs ==
    [kind : {"fragility", "share"}, values : RowSeqs(UnitValues)]
    \cup [kind : {"nesting"}, values : RowSeqs(NestingValues)]

ComputeBands ==
    /\ called = "none"
    /\ called' = "bands"
    /\ result' = CASE args.kind = "fragility" -> fragilityBands(args.values)
                   [] args.kind = "share" -> shareBands(args.values)
                   [] args.kind = "nesting" -> nestingBands(args.values)
    /\ UNCHANGED args
    /\ UNCHANGED <<trackerVars, storeVars, viewVars>>

InitBands ==
    /\ TrackerInit
    /\ StoreInit
    /\ ViewInit
    /\ called = "none"
    /\ args \in BandInputs
    /\ result = NULL

NextBands == ComputeBands

SpecBands == InitBands /\ [][NextBands]_vars

\* ---- ranking (the fragility table).  A displayed list is the sequence
\* of the input positions of its rows.
FragilityRows ==
    [file_path : {"a", "b"}, touches : {1, 2}, churn : {1, 2},
     fragility_index : {1, 2}]

SortKeys == {"index", "touches", "churn", "file"}

\* a.localeCompare(b) on the one-letter paths
localeCompare(a, b) == IF a = b THEN 0 ELSE IF a = "a" THEN -1 ELSE 1

Positions(rows) == [i \in 1..Len(rows) |-> i]

\* indexSorted: [...fragility].sort((a, b) => toNumber(b.fragility_index)
\*                                          - toNumber(a.fragility_index))
indexSorted(rows) ==
    LET byIndex == [a \in 1..Len(rows), b \in 1..Len(rows) |->
                       rows[b].fragility_index - rows[a].fragility_index]
    IN  Sort(Positions(rows), byIndex)

\* filteredFragility: the rows of indexSorted whose path includes the
\* query (all of them for an empty query), sorted by the chosen key
filteredFragility(rows, query, sortBy) ==
    LET Matches(i) == rows[i].file_path = query
        base == IF query # "" THEN SelectSeq(indexSorted(rows), Matches)
                ELSE indexSorted(rows)
        bySortKey == [a \in 1..Len(rows), b \in 1..Len(rows) |->
            IF sortBy = "touches" THEN rows[b].touches - rows[a].touches
            ELSE IF sortBy = "churn" THEN rows[b].churn - rows[a].churn
            ELSE IF sortBy = "file"
                 THEN localeCompare(rows[a].file_path, rows[b].file_path)
            ELSE rows[b].fragility_index - rows[a].fragility_index]
    IN  Sort(base, bySortKey)

RankingInputs ==
    [rows : RowSeqs(FragilityRows), query : {"", "a"}, sortBy : SortKeys]

ComputeRanking ==
    /\ called = "none"
    /\ called' = "filteredFragility"
    /\ result' = filteredFragility(args.rows, args.query, args.sortBy)
    /\ UNCHANGED args
    /\ UNCHANGED <<trackerVars, storeVars, viewVars>>

InitRanking ==
    /\ TrackerInit
    /\ StoreInit
    /\ ViewInit
    /\ called = "none"
    /\ args \in RankingInputs
    /\ result = NULL

NextRanking == ComputeRanking

SpecRanking == InitRanking /\ [][NextRanking]_vars


\* ---- dataset responses.  A response body is a bare array of rows or
\* an object holding the rows under one key.
DatasetKinds ==
    {"hotspots", "fragility", "complexity", "ownership", "commits",
     "timeline", "findings", "files"}

ArrayPayload(rows) == [isArray |-> TRUE, key |-> "", rows |-> rows]

EnvelopePayload(key, rows) == [isArray |-> FALSE, key |-> key, rows |-> rows]

\* apiGet: return response.json(), the parsed body as delivered
apiGet(body) == body

\* the outcome of a render: the rows a view derives, or a TypeError
Rendered(rows) == [threw |-> FALSE, rows |-> rows]

TypeError == [threw |-> TRUE, rows |-> <<>>]

\* Array.isArray(payload) ? payload : payload?.[key] ?? []
unwrap(payload, key) ==
    IF payload.isArray THEN payload.rows
    ELSE IF payload.key = key THEN payload.rows
    ELSE <<>>

findings(findingsPayload) == unwrap(findingsPayload, "findings")

fileStats(filesPayload) == unwrap(filesPayload, "files")

\* [...data]: a copy of an array; an object literal is not iterable
SpreadArray(data) == IF data.isArray THEN Rendered(data.rows) ELSE TypeError

\* data.filter(...), data.slice(...): array methods, absent on an object
ArrayMethod(data) == IF data.isArray THEN Rendered(data.rows) ELSE TypeError

\* the rows a view derives from the state it stored for a dataset kind
derivedRows(kind, data) ==
    IF kind = "findings" THEN Rendered(findings(data))
    ELSE IF kind = "files" THEN Rendered(fileStats(data))
    ELSE IF kind \in {"commits", "timeline"} THEN ArrayMethod(data)
    ELSE SpreadArray(data)

DatasetRows == RowSeqs({1, 2})

PayloadInputs ==
    [kind : DatasetKinds, rows : DatasetRows, envelope : BOOLEAN]

ComputeRows ==
    /\ called = "none"
    /\ called' = "derivedRows"
    /\ result' = derivedRows(args.kind,
                     apiGet(IF args.envelope
                            THEN EnvelopePayload(args.kind, args.rows)
                            ELSE ArrayPayload(args.rows)))
    /\ UNCHANGED args
    /\ UNCHANGED <<trackerVars, storeVars, viewVars>>

InitRows ==
    /\ TrackerInit
    /\ StoreInit
    /\ ViewInit
    /\ called = "none"
    /\ args \in PayloadInputs
    /\ result = NULL

NextRows == ComputeRows

SpecRows == InitRows /\ [][NextRows]_vars


\* ---- the treemap of the overview.  A file path is the sequence of the
\* pieces between its "/" separators; a tree is the sequence of its nodes
\* below the root in creation order, each naming its parent (0: the root).
PathPieces ==
    {<<"">>, <<"a">>, <<"a", "b">>, <<"a", "", "b">>, <<"b", "a">>}

HotspotRows == [file_path : PathPieces, touches : {0, 2}, churn : {0, 1}]

\* row.file_path.split("/").filter(Boolean)
Parts(file_path) == SelectSeq(file_path, LAMBDA piece : piece # "")

\* toMetricValue on a numeric field
toMetricValue(value) == value

Max(a, b) == IF a >= b THEN a ELSE b

\* child = { name: part }: a node without a value
NewNode(name, parent) ==
    [name |-> name, parent |-> parent, hasValue |-> FALSE, value |-> 0]

\* a lookup that never finds the child
FindChildNever(tree, current, part) == 0

\* current.children.find((node) => node.name === part); 0 when absent
FindChild(tree, current, part) ==
    LET hits == {i \in 1..Len(tree) :
                    tree[i].parent = current /\ tree[i].name = part}
    IN  IF hits = {} THEN 0
        ELSE CHOOSE i \in hits : \A j \in hits : i <= j

\* the inner loop of buildTreemapData over the parts of one row
RECURSIVE InsertParts(_, _, _, _)
InsertParts(tree, current, parts, value) ==
    IF parts = <<>> THEN tree
    ELSE LET part == Head(parts)
             found == FindChild(tree, current, part)
             pushed == IF found = 0
                       THEN Append(tree, NewNode(part, current))
                       ELSE tree
             child == IF found = 0 THEN Len(tree) + 1 ELSE found
             valued == IF Len(parts) = 1
                       THEN [pushed EXCEPT ![child] =
                                [@ EXCEPT !.hasValue = TRUE,
                                          !.value = @ + value]]
                       ELSE pushed
         IN  InsertParts(valued, child, Tail(parts), value)

\* the body of the outer loop for one row
InsertRow(tree, row) ==
    LET parts == Parts(row.file_path)
        value == Max(1, toMetricValue(row.touches) + toMetricValue(row.churn))
    IN  IF parts = <<>> THEN tree
        ELSE InsertParts(tree, 0, parts, value)

RECURSIVE InsertRows(_, _, _)
InsertRows(tree, rows, i) ==
    IF i > Len(rows) THEN tree
    ELSE InsertRows(InsertRow(tree, rows[i]), rows, i + 1)

buildTreemapData(rows) == InsertRows(<<>>, rows, 1)

\* hierarchy(data): the children of node n (0: the root)
ChildrenOf(tree, n) == {i \in 1..Len(tree) : tree[i].parent = n}

\* layout.leaves(): the nodes without children, the root among them
\* when the tree is empty
Leaves(tree) == {n \in 0..Len(tree) : ChildrenOf(tree, n) = {}}

\* node.value ?? 0
OwnValue(tree, n) == IF n = 0 THEN 0 ELSE tree[n].value

\* leaf.value after hierarchy(data).sum(...): a leaf has no children, so
\* its sum is its own value
LeafValue(tree, n) == OwnValue(tree, n)

ComputeTree ==
    /\ called = "none"
    /\ called' = "buildTreemapData"
    /\ result' = buildTreemapData(args)
    /\ UNCHANGED args
    /\ UNCHANGED <<trackerVars, storeVars, viewVars>>

InitTree ==
    /\ TrackerInit
    /\ StoreInit
    /\ ViewInit
    /\ called = "none"
    /\ args \in RowSeqs(HotspotRows)
    /\ result = NULL

NextTree == ComputeTree

SpecTree == InitTree /\ [][NextTree]_vars


\* ---- hit-testing on the treemap.  The chart is drawn in a viewBox of
\* ChartWidth x ChartHeight; the pointer arrives in client coordinates
\* and is scaled by the bounding box of the svg element.
ChartWidth == 640

ChartHeight == 320

\* activeIndex = null (leaves are numbered from 1)
NoLeaf == 0

LeafRects ==
    {[x0 |-> 2, x1 |-> 317, y0 |-> 2, y1 |-> 318],
     [x0 |-> 323, x1 |-> 638, y0 |-> 2, y1 |-> 157],
     [x0 |-> 317, x1 |-> 638, y0 |-> 157, y1 |-> 318],
     [x0 |-> 2, x1 |-> 638, y0 |-> 2, y1 |-> 318]}

\* svg.getBoundingClientRect()
ClientBounds ==
    {[left |-> 0, top |-> 0, width |-> 640, height |-> 320],
     [left |-> 10, top |-> 20, width |-> 320, height |-> 160]}

ClientXs == {0, 1, 160, 317, 320, 168, 169, 329, 330}

ClientYs == {0, 2, 98, 99, 157, 180}

\* x = ((event.clientX - bounds.left) / bounds.width) * width, kept as
\* the fraction num / den with den > 0
ChartX(clientX, bounds) ==
    [num |-> (clientX - bounds.left) * ChartWidth, den |-> bounds.width]

ChartY(clientY, bounds) ==
    [num |-> (clientY - bounds.top) * ChartHeight, den |-> bounds.height]

\* a fraction against a whole number
AtLeast(q, n) == q.num >= n * q.den

AtMost(q, n) == q.num <= n * q.den

\* a test that leaves the right and bottom edges out
HitsHalfOpen(leaf, x, y) ==
    /\ AtLeast(x, leaf.x0) /\ ~AtLeast(x, leaf.x1)
    /\ AtLeast(y, leaf.y0) /\ ~AtLeast(y, leaf.y1)

\* x >= leaf.x0 && x <= leaf.x1 && y >= leaf.y0 && y <= leaf.y1
Hits(leaf, x, y) ==
    /\ AtLeast(x, leaf.x0) /\ AtMost(x, leaf.x1)
    /\ AtLeast(y, leaf.y0) /\ AtMost(y, leaf.y1)

\* leaves.findIndex(...), then nextIndex >= 0 ? nextIndex : null
findIndex(leaves, x, y) ==
    LET hits == {i \in 1..Len(leaves) : Hits(leaves[i], x, y)}
    IN  IF hits = {} THEN NoLeaf
        ELSE CHOOSE i \in hits : \A j \in hits : i <= j

\* onMouseMove; the svg element that received the event is mounted, so
\* svgRef.current is set
handleMove(clientX, clientY) ==
    /\ called' = "handleMove"
    /\ args' = [args EXCEPT !.clientX = clientX, !.clientY = clientY]
    /\ result' = findIndex(args.leaves, ChartX(clientX, args.bounds),
                           ChartY(clientY, args.bounds))
    /\ UNCHANGED <<trackerVars, storeVars, viewVars>>

\* onMouseLeave={() => setActiveIndex(null)}
mouseLeave ==
    /\ called' = "mouseLeave"
    /\ result' = NoLeaf
    /\ UNCHANGED args
    /\ UNCHANGED <<trackerVars, storeVars, viewVars>>

InitHit ==
    /\ TrackerInit
    /\ StoreInit
    /\ ViewInit
    /\ called = "none"
    /\ args \in [leaves : RowSeqs(LeafRects), bounds : ClientBounds,
                 clientX : {0}, clientY : {0}]
    /\ result = NoLeaf

NextHit ==
    \/ \E clientX \in ClientXs, clientY \in ClientYs :
           handleMove(clientX, clientY)
    \/ mouseLeave

SpecHit == InitHit /\ [][NextHit]_vars


\* ---- per-contributor coverage of the ownership page
OwnershipRows ==
    [contributor_name : {"x", "y", "z"}, touches : {1, 2}, churn : {0, 3},
     contribution_share : {1, 2}]

\* toNumber on a numeric share
toNumber(value) == value

\* a lookup that never finds the entry
MapGetNever(map, name) == 0

\* map.get(name): the position of the entry in the Map, 0 when absent
MapGet(map, name) ==
    IF \E i \in 1..Len(map) : map[i].name = name
    THEN CHOOSE i \in 1..Len(map) : map[i].name = name
    ELSE 0

\* one pass of the loop body: map.get(...) ?? {...}, the four sums,
\* map.set(...).  A Map keeps its entries in the order of first insertion.
AddRow(map, row) ==
    LET at == MapGet(map, row.contributor_name)
        entry == IF at # 0 THEN map[at]
                 ELSE [name |-> row.contributor_name, files |-> 0,
                       touches |-> 0, churn |-> 0, shareTotal |-> 0]
        next == [name |-> entry.name,
                 files |-> entry.files + 1,
                 touches |-> entry.touches + row.touches,
                 churn |-> entry.churn + row.churn,
                 shareTotal |-> entry.shareTotal
                                    + toNumber(row.contribution_share)]
    IN  IF at # 0 THEN [map EXCEPT ![at] = next] ELSE Append(map, next)

RECURSIVE AddRows(_, _, _)
AddRows(map, rows, i) ==
    IF i > Len(rows) THEN map
    ELSE AddRows(AddRow(map, rows[i]), rows, i + 1)

\* Array.from(map.values()).sort(files descending, then shareTotal)
ownerCoverage(ownership) ==
    LET values == AddRows(<<>>, ownership, 1)
        byCoverage == [a \in Elements(values), b \in Elements(values) |->
            IF b.files # a.files THEN b.files - a.files
            ELSE b.shareTotal - a.shareTotal]
    IN  Sort(values, byCoverage)

ComputeCoverage ==
    /\ called = "none"
    /\ called' = "ownerCoverage"
    /\ result' = ownerCoverage(args)
    /\ UNCHANGED args
    /\ UNCHANGED <<trackerVars, storeVars, viewVars>>

InitCoverage ==
    /\ TrackerInit
    /\ StoreInit
    /\ ViewInit
    /\ called = "none"
    /\ args \in RowSeqs(OwnershipRows)
    /\ result = NULL

NextCoverage == ComputeCoverage

SpecCoverage == InitCoverage /\ [][NextCoverage]_vars


\* ---- useAnalysisState: the consumers of the session.  The callback a
\* consumer registers is () => setState(loadAnalysisState()).
\* The consumer states after the callbacks of a storage step have run.
Reloaded ==
    [t \in Tabs |-> [l \in Listeners |->
        IF lastStore'.calls[t][l] > 0
        THEN loadAnalysisState(slot') ELSE state[t][l]]]

\* A consumer mounts: useState(default session), then the effect
\* setState(loadAnalysisState()); subscribeAnalysisState(callback).
Mount(t, l) ==
    /\ Subscribe(t, l)
    /\ state' = [state EXCEPT ![t][l] = loadAnalysisState(slot)]
    /\ UNCHANGED <<overviewPage, fragilityPage>>

\* A consumer unmounts: the effect cleanup unsubscribes; its state is gone.
Unmount(t, l) ==
    /\ Unsubscribe(t, l)
    /\ state' = [state EXCEPT ![t][l] = defaultState]
    /\ UNCHANGED <<overviewPage, fragilityPage>>

\* update(next) of a mounted consumer of tab t enters saveAnalysisState.
UpdateRead(t, u) ==
    /\ listeners[t] # {}
    /\ SaveRead(t, u)
    /\ UNCHANGED viewVars

\* saveAnalysisState writes and dispatches (the callbacks of the tab
\* run), then update does setState(next) with the value it returned.
UpdateWrite(t) ==
    /\ SaveWrite(t)
    /\ \E caller \in listeners[t] :
          state' = [Reloaded EXCEPT ![t][caller] =
                       Spread(pending[t].current, pending[t].update)]
    /\ UNCHANGED <<overviewPage, fragilityPage>>

\* clearAnalysisState() in tab t; the callbacks of the tab run.
ClearSession(t) ==
    /\ Clear(t)
    /\ state' = Reloaded
    /\ UNCHANGED <<overviewPage, fragilityPage>>

\* a "storage" event is dispatched in tab t; its callbacks run.
StorageEvent(t) ==
    /\ DeliverStorage(t)
    /\ state' = Reloaded
    /\ UNCHANGED <<overviewPage, fragilityPage>>

\* Consumers mount and unmount in both tabs while sessions are submitted
\* and cleared.
NextConsumers ==
    \/ \E t \in Tabs, l \in Listeners : Mount(t, l)
    \/ \E t \in Tabs, l \in Listeners : Unmount(t, l)
    \/ \E t \in Tabs, u \in Submissions : UpdateRead(t, u)
    \/ \E t \in Tabs : UpdateWrite(t)
    \/ \E t \in Tabs : ClearSession(t)
    \/ \E t \in Tabs : StorageEvent(t)

SpecConsumers == Init /\ [][NextConsumers]_vars


\* ---- FragilityPage of tab t1 (the other dataset pages load the same
\* way).  Its session is the state of the consumer with callback L1.
PageState == state["t1"]["L1"]

\* load(): setLoading(true); setError(null); apiGet(.../${id}/fragility)
StartLoad(page, id) ==
    [page EXCEPT !.requests = @ \cup {[repoId |-> id, n |-> page.loads + 1]},
                 !.loads = @ + 1,
                 !.error = NULL]

\* The page is rendered with a state.repoId other than the one its load
\* effect last ran with: the effect runs, and returns at once when the
\* repoId is null.
FragilityEffect ==
    /\ fragilityPage.repoDeps # PageState.repoId
    /\ fragilityPage' =
           [(IF PageState.repoId = NULL THEN fragilityPage
             ELSE StartLoad(fragilityPage, PageState.repoId))
            EXCEPT !.repoDeps = PageState.repoId]
    /\ UNCHANGED <<state, overviewPage>>
    /\ UNCHANGED <<trackerVars, storeVars, deriveVars>>

\* load resumes after `await apiGet(...)` with the rows of the
\* repository it asked for: setFragility(data)
LoadResolved(r) ==
    /\ r \in fragilityPage.requests
    /\ fragilityPage' = [fragilityPage EXCEPT !.requests = @ \ {r},
                                              !.fragility = r.repoId]
    /\ UNCHANGED <<state, overviewPage>>
    /\ UNCHANGED <<trackerVars, storeVars, deriveVars>>

\* apiGet rejects: load resumes in its catch branch, setError(...)
LoadRejected(r) ==
    /\ r \in fragilityPage.requests
    /\ fragilityPage' = [fragilityPage EXCEPT
                            !.requests = @ \ {r},
                            !.error = "Unable to load fragility."]
    /\ UNCHANGED <<state, overviewPage>>
    /\ UNCHANGED <<trackerVars, storeVars, deriveVars>>

\* Tab t1 shows the fragility page, tab t2 the overview; both have
\* mounted their useAnalysisState consumer.
InitDataset ==
    /\ TrackerInit
    /\ slot = Absent
    /\ pending = [t \in Tabs |-> Idle]
    /\ listeners = [t \in Tabs |-> {"L1"}]
    /\ unsubscribed = [t \in Tabs |-> {"L2"}]
    /\ storageQ = [t \in Tabs |-> 0]
    /\ nops = 0
    /\ lastWrite = [f \in Fields |-> NULL]
    /\ lastStore = StoreStep("subscribe", "t1", FALSE, NoCalls,
                             StorageFired("t1", FALSE))
    /\ applied = <<>>
    /\ loaded = [done |-> FALSE, value |-> defaultState]
    /\ DeriveInit
    /\ ViewInit

\* Analyses are submitted in tab t2 (and the session cleared there) while
\* the fragility page of tab t1 follows the session.
NextDataset ==
    \/ \E u \in Submissions : UpdateRead("t2", u)
    \/ UpdateWrite("t2")
    \/ ClearSession("t2")
    \/ \E t \in Tabs : StorageEvent(t)
    \/ FragilityEffect
    \/ \E r \in fragilityPage.requests : LoadResolved(r)
    \/ \E r \in fragilityPage.requests : LoadRejected(r)

SpecDataset == InitDataset /\ [][NextDataset]_vars


\* ---- OverviewPage of tab t1.  Its session is PageState and its tracker
\* is the consumer "page" of useAnalysisRun.
\* the run id the analysis service gave with a stored runId
RunIdOf(v) == IF v = "a" THEN "A" ELSE IF v = "b" THEN "B" ELSE NULL

\* the values the page is rendered with that loadMetrics' effect lists
MetricsDeps == <<PageState.repoId, run["page"], overviewPage.metricsLoaded>>

\* !(!state.repoId || !run || run.status !== "succeeded" || metricsLoaded)
MetricsGuard(repoId, r, metricsLoaded) ==
    /\ repoId # NULL
    /\ r # NullRun
    /\ r.status = "succeeded"
    /\ ~metricsLoaded

\* A state change of the page awaits its render: React renders and runs
\* the effects before the next event is handled.
CommitPending ==
    \/ RunIdOf(PageState.runId) # runId["page"]
    \/ overviewPage.repoDeps # PageState.repoId
    \/ overviewPage.metricsDeps # MetricsDeps

\* The page is rendered with values that differ from those its effects
\* last ran with; the effects whose dependencies changed run in order:
\* useAnalysisRun's effect (runId), setMetricsLoaded(false) (repoId),
\* loadMetrics (repoId, run, metricsLoaded).  Dependencies are compared
\* by value.
OverviewCommit ==
    LET id == RunIdOf(PageState.runId)
        repoChanged == overviewPage.repoDeps # PageState.repoId
        starts == /\ overviewPage.metricsDeps # MetricsDeps
                  /\ MetricsGuard(PageState.repoId, run["page"],
                                  overviewPage.metricsLoaded)
    IN  /\ CommitPending
        /\ IF id # runId["page"]
           THEN ChangeRunId("page", id)
           ELSE UNCHANGED <<trackerVars, storeVars, deriveVars>>
        /\ overviewPage' =
               [overviewPage EXCEPT
                   !.metricsLoaded =
                       IF repoChanged /\ PageState.repoId # NULL
                       THEN FALSE ELSE @,
                   !.repoDeps = PageState.repoId,
                   !.metricsDeps = MetricsDeps,
                   !.requests =
                       IF starts
                       THEN @ \cup {[repoId |-> PageState.repoId,
                                     n |-> nfetch]}
                       ELSE @]
        /\ UNCHANGED <<state, fragilityPage>>

\* handleSubmit up to `await apiPost(...)`
HandleSubmit ==
    /\ ~CommitPending
    /\ ~overviewPage.loading
    /\ overviewPage' = [overviewPage EXCEPT !.loading = TRUE,
                                            !.metricsLoaded = FALSE]
    /\ UNCHANGED <<state, fragilityPage>>
    /\ UNCHANGED <<trackerVars, storeVars, deriveVars>>

\* handleSubmit resumes with the response: update({...}), which is
\* setState(saveAnalysisState(next)), then setLoading(false)
SubmitResolved(u) ==
    /\ ~CommitPending
    /\ overviewPage.loading
    /\ saveAnalysisState("t1", u)
    /\ state' = [Reloaded EXCEPT !["t1"]["L1"] =
                    Spread(loadAnalysisState(slot), u)]
    /\ overviewPage' = [overviewPage EXCEPT !.loading = FALSE]
    /\ UNCHANGED fragilityPage

\* apiPost rejects: setError(...), then setLoading(false)
SubmitRejected ==
    /\ ~CommitPending
    /\ overviewPage.loading
    /\ overviewPage' = [overviewPage EXCEPT !.loading = FALSE]
    /\ UNCHANGED <<state, fragilityPage>>
    /\ UNCHANGED <<trackerVars, storeVars, deriveVars>>

\* loadMetrics resumes after Promise.all: the three setters, then
\* setMetricsLoaded(true)
MetricsResolved(r) ==
    /\ ~CommitPending
    /\ r \in overviewPage.requests
    /\ overviewPage' = [overviewPage EXCEPT !.requests = @ \ {r},
                                            !.metricsLoaded = TRUE]
    /\ UNCHANGED <<state, fragilityPage>>
    /\ UNCHANGED <<trackerVars, storeVars, deriveVars>>

\* one of the three requests rejects: setError(...)
MetricsRejected(r) ==
    /\ ~CommitPending
    /\ r \in overviewPage.requests
    /\ overviewPage' = [overviewPage EXCEPT !.requests = @ \ {r}]
    /\ UNCHANGED <<state, fragilityPage>>
    /\ UNCHANGED <<trackerVars, storeVars, deriveVars>>

\* Tab t1 shows the overview; its useAnalysisState consumer is mounted.
InitOverview ==
    /\ TrackerInit
    /\ slot = Absent
    /\ pending = [t \in Tabs |-> Idle]
    /\ listeners = [t \in Tabs |-> IF t = "t1" THEN {"L1"} ELSE {}]
    /\ unsubscribed = [t \in Tabs |->
                         IF t = "t1" THEN {"L2"} ELSE Listeners]
    /\ storageQ = [t \in Tabs |-> 0]
    /\ nops = 0
    /\ lastWrite = [f \in Fields |-> NULL]
    /\ lastStore = StoreStep("subscribe", "t1", FALSE, NoCalls,
                             StorageFired("t1", FALSE))
    /\ applied = <<>>
    /\ loaded = [done |-> FALSE, value |-> defaultState]
    /\ DeriveInit
    /\ ViewInit

\* Analyses are submitted from the overview while its tracker polls.
NextOverview ==
    \/ HandleSubmit
    \/ \E u \in Submissions : SubmitResolved(u)
    \/ SubmitRejected
    \/ OverviewCommit
    \/ \E r \in overviewPage.requests : MetricsResolved(r)
    \/ \E r \in overviewPage.requests : MetricsRejected(r)
    \/ \E t \in timers : Tick(t)
          /\ ~CommitPending
          /\ UNCHANGED viewVars
    \/ \E id \in RunIds : ServerAdvance(id)
          /\ UNCHANGED viewVars
    \/ \E r \in inflight : ServerRespond(r)
          /\ UNCHANGED viewVars
    \/ \E r \in inflight : PollResolved(r)
          /\ ~CommitPending
          /\ UNCHANGED viewVars
    \/ \E r \in inflight : PollRejected(r)
          /\ ~CommitPending
          /\ UNCHANGED viewVars

SpecOverview == InitOverview /\ [][NextOverview]_vars

\* ------------------------------------------------------- tracker: claims
\* C1: once a status fetch for a run id has been observed with status
\* succeeded or failed by a subscribed consumer, no interval tick issues a
\* further fetch for that id, however many consumers track the id.
C1_NoFetchAfterTerminal ==
    [][(nfetch' = nfetch + 1 /\ epoch' = epoch) =>
          \A r \in inflight' \ inflight, c \in Consumers :
             ~(runId[c] = r.id /\ seenTerminal[c])]_vars

\* A request issued by a superseded effect closure is resolved in this step.
StaleResolution ==
    \E r \in inflight : ~r.active /\ inflight' = inflight \ {r}

\* C2: when the subscribed run id changes (or the subscription is torn
\* down) while a request is in flight, the old closure's timer is cancelled
\* and the later resolution of that request, success or failure, changes
\* neither the exposed run nor the exposed error.
C2_StaleResponseIgnored ==
    /\ [](\A t \in timers : t.active /\ t.id = runId[t.c])
    /\ [][StaleResolution => run' = run /\ error' = error]_vars

C2_Witness ==
    \E c \in Consumers :
        /\ staleSeen[c] = "A"
        /\ runId[c] = "B"
        /\ \E t \in timers : t.c = c /\ t.id = "B"

\* C3: at every moment at most one status request is in flight per run id.
C3_OneInflightPerRun ==
    \A id \in RunIds : Cardinality(InflightFor(id)) <= 1

\* The current subscription of c has nothing pending: no armed interval and
\* no unresolved request of its closure.
Settled(c) ==
    /\ \A t \in timers : t.c # c
    /\ \A r \in inflight : ~(r.c = c /\ r.active)

\* C8: a subscription whose fetches all succeed and return k non-terminal
\* statuses followed by succeeded issues exactly k+1 fetches and ends with
\* run.status = succeeded and error = null.  Stated for the first
\* subscription of a consumer (epoch 1), which starts with error = null.
C8_ExactFetchCount ==
    \A c \in Consumers :
        (/\ runId[c] # NULL
         /\ epoch[c] = 1
         /\ server[runId[c]].status = "succeeded"
         /\ seenTerminal[c]
         /\ ~rejected[c]
         /\ Settled(c))
        => /\ issued[c] = nonterm[c] + 1
           /\ run[c].status = "succeeded"
           /\ error[c] = NULL

C10_TerminalAbsorbing ==
    [][\A c \in Consumers :
         (/\ run[c].status \in Terminal
          /\ run[c].id = runId[c]
          /\ epoch'[c] = epoch[c])
         => run'[c].status = run[c].status]_vars

\* The current subscription of c still has its interval armed.
Polling(c) ==
    \E t \in timers : t.c = c /\ t.active /\ t.id = runId[c]

\* C11: a subscription to a non-null run id issues a status fetch at once,
\* and as long as the last observed status is not terminal (or nothing has
\* been observed) its interval stays armed, so a further fetch follows one
\* poll interval later: polling never stops silently.
C11_PollingContinues ==
    /\ [][\A c \in Consumers :
            (epoch'[c] # epoch[c] /\ runId'[c] # NULL)
            => \E r \in inflight' \ inflight :
                  r.c = c /\ r.active /\ r.id = runId'[c]]_vars
    /\ [](\A c \in Consumers :
            (runId[c] # NULL /\ run[c].status \notin Terminal) => Polling(c))

\* C12: whenever the exposed run has status failed, the exposed error is
\* the run's error_message when that is a non-empty string and
\* "Analysis failed." otherwise, whatever poll failures happened before or
\* after.
C12_FailedRunShowsServerError ==
    \A c \in Consumers :
        run[c].status = "failed" => error[c] = FailedText(run[c])

\* ------------------------------------------------------- storage: claims
\* defaults <- p1 <- p2, field by field
MergeFields(p1, p2) ==
    [f \in Fields |->
        IF f \in DOMAIN p2 THEN p2[f]
        ELSE IF f \in DOMAIN p1 THEN p1[f] ELSE NULL]

\* C4: after two partial updates p1 then p2 applied through
\* saveAnalysisState to an empty slot, loadAnalysisState returns the
\* field-wise merge defaults <- p1 <- p2.
C4_LoadIsMerge ==
    (Len(applied) = 2 /\ lastStore.op = "load")
    => loaded.value = MergeFields(applied[1], applied[2])

C4_Witness ==
    /\ Len(applied) = 2
    /\ lastStore.op = "load"
    /\ applied[1] = [repoId |-> "a", runId |-> "a", branch |-> "b"]
    /\ applied[2] = [runId |-> "b", branch |-> NULL]
    /\ loaded.value = [repoId |-> "a", runId |-> "b", repoUrl |-> NULL,
                       branch |-> NULL]

\* C5: when two tabs sharing the slot apply updates through
\* saveAnalysisState in any interleaving, no update is lost: once no call
\* is in progress every field holds the value of its latest write.
C5_NoLostUpdate ==
    (\A t \in Tabs : ~pending[t].busy)
    => \A f \in Fields : loadAnalysisState(slot)[f] = lastWrite[f]

\* C6: every saveAnalysisState / clearAnalysisState call invokes each
\* subscribed listener exactly once: in the calling tab through the
\* dispatched event, in every other tab with a listener through one
\* "storage" event whose dispatch calls each listener once; also when the
\* call leaves the stored value unchanged.
C6_NotifiedExactlyOnce ==
    /\ lastStore.op \in {"save", "clear"} =>
          /\ \A l \in listeners[lastStore.tab] :
                lastStore.calls[lastStore.tab][l] = 1
          /\ \A t \in Tabs \ {lastStore.tab} :
                listeners[t] # {} => lastStore.fired[t] = 1
    /\ lastStore.op = "storage" =>
          \A l \in listeners[lastStore.tab] :
             lastStore.calls[lastStore.tab][l] = 1

\* C7: loadAnalysisState returns exactly the all-null default session
\* whenever the slot is absent or holds a value that is not a serialized
\* session object (unparsable text, or JSON for a string, number, array,
\* boolean or null).
C7_MalformedGivesDefault ==
    (loaded.done /\ slot.kind # "object") => loaded.value = defaultState

\* runId is set only together with repoId
RunHasRepo(session) == session.runId # NULL => session.repoId # NULL

\* C15 as stated: in every reachable persisted session runId is non-null
\* only if repoId is non-null, after any sequence of analysis submissions,
\* partial updates and clears.
C15_RunIdImpliesRepoId == RunHasRepo(loadAnalysisState(slot))

\* C15 amended: every completed analysis submission and every clear leaves
\* a persisted session whose runId is non-null only if its repoId is
\* non-null, whatever the slot held and whatever the other tab wrote in
\* between (so the property holds along sequences of submissions and
\* clears); a partial update is stored as given and can break it.
C15_SubmissionSetsBoth ==
    [][/\ \A t \in Tabs :
            (/\ pending[t].busy
             /\ pending[t].update \in Submissions
             /\ ~pending'[t].busy)
            => RunHasRepo(loadAnalysisState(slot'))
       /\ (nops' = nops + 1 /\ lastStore'.op = "clear")
            => RunHasRepo(loadAnalysisState(slot'))]_vars

C15_Witness ==
    /\ lastStore.op = "save"
    /\ nops >= 2
    /\ loadAnalysisState(slot) = SubmitUpdate("b", "b", "b", "b")
    /\ lastWrite = SubmitUpdate("b", "b", "b", "b")

\* ------------------------------------------------------ teardown: claims
\* The requests issued by this step: those in a slot that was free.
Issued ==
    {r \in inflight' :
        \A q \in inflight : ~(q.c = r.c /\ q.slot = r.slot)}

\* C14: once the unsubscribe function of a callback has been called, no
\* later update, clear or storage event invokes that callback; and once
\* the tracker's effect cleanup has run, no interval of that subscription
\* issues another fetch (every new request comes from the live closure).
C14_NoCallAfterTeardown ==
    /\ [](\A t \in Tabs : \A l \in unsubscribed[t] :
            lastStore.calls[t][l] = 0)
    /\ [][\A r \in Issued : r.active]_vars

C14_Witness ==
    /\ "L1" \in unsubscribed["t1"]
    /\ "L2" \in listeners["t1"]
    /\ lastStore.op = "save"
    /\ lastStore.tab = "t1"
    /\ lastStore.calls["t1"]["L2"] = 1
    /\ lastStore.calls["t1"]["L1"] = 0
    /\ runId["page"] = NULL
    /\ staleSeen["page"] = "A"
    /\ timers = {}

\* ---------------------------------------------------- derivations: claims
\* the presentation category a tone stands for (its class, "status-<cat>")
ToneCategory(tone) ==
    CASE tone.className = "status-idle" -> "idle"
      [] tone.className = "status-queued" -> "queued"
      [] tone.className = "status-running" -> "running"
      [] tone.className = "status-succeeded" -> "succeeded"
      [] tone.className = "status-failed" -> "failed"
      [] OTHER -> "none"

\* C13: statusTone maps a null run to idle, queued to queued, running to
\* running, succeeded to succeeded and every other status (failed or
\* unrecognized) to failed: one of the five categories for every run,
\* depending on nothing but whether the run is null and its status.
C13_StatusToneTotal ==
    called = "statusTone" =>
        ToneCategory(result) =
            (IF args = NullRun THEN "idle"
             ELSE IF args.status \in {"queued", "running", "succeeded"}
                  THEN args.status
                  ELSE "failed")

C13_Witness ==
    /\ called = "statusTone"
    /\ args # NullRun
    /\ args.status = "cancelled"
    /\ result.className = "status-failed"

\* the fixed category set
Categories ==
    {"feat", "fix", "docs", "style", "refactor", "perf", "test", "build",
     "ci", "revert", "chore", "unknown"}

\* C16: for every commit row deriveClassification returns one member of
\* the fixed category set, whatever the stored classification (empty,
\* null, or outside the set) and whatever the message.
C16_ClassificationInSet ==
    called = "deriveClassification" => result \in Categories

\* msg starts with `type:`, `type(scope):` or `type!:`
StartsWithConventionalPrefix(msg) ==
    /\ Len(msg) >= 2
    /\ msg[1] \in WordTokens
    /\ \/ msg[2] = ":"
       \/ Len(msg) >= 3 /\ msg[2] = "!" /\ msg[3] = ":"
       \/ /\ Len(msg) >= 5
          /\ msg[2] = "(" /\ msg[3] \in WordTokens /\ msg[4] = ")"
          /\ msg[5] = ":"

\* C17: when the stored classification is absent or "unknown" and the
\* message starts with `type:`, `type(scope):` or `type!:` for a type that
\* is (case-insensitively) a key of the prefix table, the result is the
\* table's category for that type; and a stored known category is returned
\* whatever the message says.
C17_PrefixResolves ==
    called = "deriveClassification" =>
        /\ (/\ args.classification \in {NULL, "unknown"}
            /\ StartsWithConventionalPrefix(args.message)
            /\ toLowerCase(args.message[1]) \in DOMAIN PREFIX_CLASSIFICATION)
           => /\ result = PREFIX_CLASSIFICATION[toLowerCase(args.message[1])]
              /\ result # "unknown"
        /\ args.classification \in Categories \ {"unknown"}
           => result = args.classification

C17_Witness ==
    /\ called = "deriveClassification"
    /\ args.classification = NULL
    /\ args.message = <<"FIX", "(", "api", ")", ":", " ", "wip">>
    /\ result = "fix"

\* the k-th smallest value of a sample (k in 1..Len)
OrderStatistic(xs, k) ==
    CHOOSE v \in {xs[i] : i \in 1..Len(xs)} :
        /\ Cardinality({i \in 1..Len(xs) : xs[i] < v}) < k
        /\ Cardinality({i \in 1..Len(xs) : xs[i] <= v}) >= k

RECURSIVE SumCounts(_)
SumCounts(bands) ==
    IF Len(bands) = 0 THEN 0 ELSE Head(bands).count + SumCounts(Tail(bands))

\* C19: in the fragility, ownership-share and nesting band tables every
\* value of the declared domain lies in exactly one band, boundary values
\* included, so the band counts add up to the sample size.
C19_BandsPartition ==
    called = "bands" =>
        /\ SumCounts(result) = Len(args.values)
        /\ Len(args.values) > 0 =>
              \A i \in 1..Len(args.values) :
                 Cardinality({b \in 1..Len(result) :
                                 InBand(args.values[i], result[b])}) = 1

C19_Witness ==
    /\ called = "bands"
    /\ args.kind = "fragility"
    /\ args.values = <<100, 25, 0>>
    /\ result[1].count = 1
    /\ result[2].count = 1
    /\ result[4].count = 1

\* the value of the numeric sort key of a row
SortKeyValue(row, sortBy) ==
    IF sortBy = "touches" THEN row.touches
    ELSE IF sortBy = "churn" THEN row.churn
    ELSE row.fragility_index

\* C20: for every numeric sort key the displayed rows are in descending
\* order of the key, and rows with equal key keep the relative order they
\* have in the array delivered by the service.
C20_RankingStableOnInput ==
    (called = "filteredFragility" /\ args.sortBy # "file") =>
        \A p, q \in 1..Len(result) :
            p < q =>
                LET kp == SortKeyValue(args.rows[result[p]], args.sortBy)
                    kq == SortKeyValue(args.rows[result[q]], args.sortBy)
                IN  /\ kp >= kq
                    /\ kp = kq => result[p] < result[q]


\* ------------------------------------------------- dataset views: claims
\* C21: for every dataset kind, the rows a view derives from a response
\* are those it derives from the same rows delivered as a bare array,
\* whether the response is the bare array or the envelope {<kind>: rows},
\* and deriving them does not fail.
C21_EnvelopeTransparent ==
    called = "derivedRows" =>
        /\ ~result.threw
        /\ result = derivedRows(args.kind, ArrayPayload(args.rows))


\* ------------------------------------------------------ treemap: claims
\* the sum of f over the set S
RECURSIVE SumOver(_, _)
SumOver(S, f) ==
    IF S = {} THEN 0
    ELSE LET n == CHOOSE m \in S : TRUE
         IN  f[n] + SumOver(S \ {n}, f)

\* the input weight of the non-degenerate rows of a batch
RECURSIVE InputWeight(_, _)
InputWeight(rows, i) ==
    IF i > Len(rows) THEN 0
    ELSE (IF Parts(rows[i].file_path) = <<>> THEN 0
          ELSE rows[i].touches + rows[i].churn) + InputWeight(rows, i + 1)

\* C22: the values carried by the leaves of the tree built from a batch
\* (the values of the leaf rectangles) add up to the sum of
\* touches + churn over the batch's rows with a non-empty path.
C22_LeafWeightConserved ==
    called = "buildTreemapData" =>
        SumOver(Leaves(result),
                [n \in 0..Len(result) |-> LeafValue(result, n)])
            = InputWeight(args, 1)


\* the names on the way from the root to node n
RECURSIVE NodePath(_, _)
NodePath(tree, n) ==
    IF n = 0 THEN <<>>
    ELSE Append(NodePath(tree, tree[n].parent), tree[n].name)

\* the non-empty prefixes of the segment lists of a batch
PathPrefixes(rows) ==
    UNION {{SubSeq(Parts(rows[i].file_path), 1, k) :
               k \in 1..Len(Parts(rows[i].file_path))} : i \in 1..Len(rows)}

Degenerate(row) == Parts(row.file_path) = <<>>

\* C23: in the tree built from a batch no node has two children of the
\* same name, the nodes are exactly the distinct path prefixes of the
\* batch, and rows with an empty segment list leave the tree as it is
\* without them.
C23_SharedPrefixNodes ==
    called = "buildTreemapData" =>
        /\ \A i, j \in 1..Len(result) :
               (i # j /\ result[i].parent = result[j].parent)
                   => result[i].name # result[j].name
        /\ {NodePath(result, n) : n \in 1..Len(result)} = PathPrefixes(args)
        /\ Len(result) = Cardinality(PathPrefixes(args))
        /\ result = buildTreemapData(
                        SelectSeq(args, LAMBDA row : ~Degenerate(row)))

C23_Witness ==
    /\ called = "buildTreemapData"
    /\ Len(args) = 3
    /\ args[1].file_path = <<"a", "b">>
    /\ args[2].file_path = <<"">>
    /\ args[3].file_path = <<"a", "", "b">>
    /\ Len(result) = 2
    /\ result[2].value = 4


\* the pointer of the last move, in chart coordinates
PointerX == ChartX(args.clientX, args.bounds)

PointerY == ChartY(args.clientY, args.bounds)

\* leaf rectangle i contains the pointer, edges included
Contains(i) ==
    /\ args.leaves[i].x0 * PointerX.den <= PointerX.num
    /\ PointerX.num <= args.leaves[i].x1 * PointerX.den
    /\ args.leaves[i].y0 * PointerY.den <= PointerY.num
    /\ PointerY.num <= args.leaves[i].y1 * PointerY.den

\* leaf rectangle i contains the pointer away from its edges
StrictlyInside(i) ==
    /\ args.leaves[i].x0 * PointerX.den < PointerX.num
    /\ PointerX.num < args.leaves[i].x1 * PointerX.den
    /\ args.leaves[i].y0 * PointerY.den < PointerY.num
    /\ PointerY.num < args.leaves[i].y1 * PointerY.den

\* C24: after a pointer move the active leaf is the first rectangle in
\* list order that contains the pointer, edges included, and none when no
\* rectangle contains it; a pointer strictly inside exactly one rectangle
\* activates that rectangle; after the pointer leaves the chart no leaf
\* is active.
C24_HitTestFirstContaining ==
    /\ called = "handleMove" =>
        /\ result # NoLeaf =>
               /\ result \in 1..Len(args.leaves)
               /\ Contains(result)
               /\ \A i \in 1..(result - 1) : ~Contains(i)
        /\ result = NoLeaf => \A i \in 1..Len(args.leaves) : ~Contains(i)
        /\ \A i \in 1..Len(args.leaves) :
               (StrictlyInside(i)
                   /\ \A j \in 1..Len(args.leaves) : j # i => ~Contains(j))
               => result = i
    /\ called = "mouseLeave" => result = NoLeaf

C24_Witness ==
    /\ called = "handleMove"
    /\ Len(args.leaves) = 3
    /\ result = 2
    /\ Contains(3)
    /\ ~StrictlyInside(2)
    /\ args.bounds.width = 320


\* ---------------------------------------------------- coverage: claims
\* the positions of the rows of a contributor
RowsOf(rows, name) == {i \in 1..Len(rows) : rows[i].contributor_name = name}

\* the position of the first row of a contributor
FirstSeen(rows, name) ==
    CHOOSE i \in RowsOf(rows, name) : \A j \in RowsOf(rows, name) : i <= j

\* C25: the coverage list has exactly one aggregate per distinct
\* contributor_name; its files, touches, churn and shareTotal are the
\* count and the sums over that contributor's rows; the list is ordered
\* by files, then shareTotal, descending, and aggregates equal in both
\* keep the order in which their contributors first appear.
C25_OneAggregatePerContributor ==
    called = "ownerCoverage" =>
        /\ {result[p].name : p \in 1..Len(result)}
               = {args[i].contributor_name : i \in 1..Len(args)}
        /\ \A p, q \in 1..Len(result) :
               result[p].name = result[q].name => p = q
        /\ \A p \in 1..Len(result) :
               LET mine == RowsOf(args, result[p].name)
               IN  /\ result[p].files = Cardinality(mine)
                   /\ result[p].touches = SumOver(mine,
                          [i \in 1..Len(args) |-> args[i].touches])
                   /\ result[p].churn = SumOver(mine,
                          [i \in 1..Len(args) |-> args[i].churn])
                   /\ result[p].shareTotal = SumOver(mine,
                          [i \in 1..Len(args) |-> args[i].contribution_share])
        /\ SumOver(1..Len(result), [p \in 1..Len(result) |-> result[p].files])
               = Len(args)
        /\ \A p, q \in 1..Len(result) :
               p < q =>
                   /\ result[p].files >= result[q].files
                   /\ result[p].files = result[q].files
                          => result[p].shareTotal >= result[q].shareTotal
                   /\ (/\ result[p].files = result[q].files
                       /\ result[p].shareTotal = result[q].shareTotal)
                          => FirstSeen(args, result[p].name)
                                 < FirstSeen(args, result[q].name)

C25_Witness ==
    /\ called = "ownerCoverage"
    /\ Len(args) = 3
    /\ Len(result) = 2
    /\ args[1].contributor_name = "y"
    /\ args[2].contributor_name = "x"
    /\ args[3].contributor_name = "y"
    /\ result[1].name = "y"
    /\ result[1].files = 2
    /\ result[1].touches = 3
    /\ result[1].churn = 3


\* ------------------------------------------- tracker: exposed run, error
\* C27: a run exposed by the tracker is the run of the subscribed id:
\* whenever run is not null its id is the runId the consumer passes, also
\* between a change of the id and the first response for the new id.
C27_RunIsSubscribedRun ==
    \A c \in Consumers : run[c] # NullRun => run[c].id = runId[c]

\* C28: the exposed error reflects the latest poll outcome: when a
\* response whose status is not failed is processed by the subscribed
\* closure, the exposed error is null afterwards.
C28_ErrorClearedBySuccess ==
    [][\A r \in inflight :
          (/\ r \notin inflight'
           /\ r.kind = "ok"
           /\ r.active
           /\ r.data.status # "failed"
           /\ runId'[r.c] = runId[r.c]
           /\ epoch'[r.c] = epoch[r.c])
          => error'[r.c] = NULL]_vars


\* ---------------------------------------------------- consumers: claims
\* no save is between its read and its write, and every "storage" event
\* has been dispatched
Quiescent == \A t \in Tabs : ~pending[t].busy /\ storageQ[t] = 0

\* C30: once every change notification has been delivered, the state of
\* every mounted useAnalysisState consumer of every tab is the session
\* loadAnalysisState reads from the slot.
C30_ConsumersAgreeWithSlot ==
    Quiescent =>
        \A t \in Tabs : \A l \in listeners[t] :
            state[t][l] = loadAnalysisState(slot)

C30_Witness ==
    /\ Quiescent
    /\ nops >= 2
    /\ lastStore.op = "storage"
    /\ lastStore.tab = "t2"
    /\ "L1" \in listeners["t2"]
    /\ "L2" \in listeners["t1"]
    /\ state["t2"]["L1"] = SubmitUpdate("b", "b", "b", "b")
    /\ state["t1"]["L2"] = SubmitUpdate("b", "b", "b", "b")


\* ------------------------------------------------- dataset page: claims
\* C29: once every load of the page has resolved (the page's effect has
\* run for the session's current repoId and the page shows no load
\* error), the rows the page holds are those returned for that repoId; a
\* response for an earlier repoId that arrives late does not replace them.
C29_RowsOfCurrentRepo ==
    (/\ fragilityPage.requests = {}
     /\ PageState.repoId # NULL
     /\ fragilityPage.repoDeps = PageState.repoId
     /\ fragilityPage.error = NULL)
    => fragilityPage.fragility = PageState.repoId


\* ----------------------------------------------------- overview: claims
\* C26: the overview starts loadMetrics (the summary, hotspots and
\* timeline fetches) only while the run exposed by its tracker is the run
\* of the session's current runId and has status succeeded; after a new
\* analysis is stored, no fetch starts on the previous run's status.
C26_MetricsOnlyForCurrentRun ==
    [][~(overviewPage'.requests \subseteq overviewPage.requests) =>
          /\ run["page"].status = "succeeded"
          /\ run["page"].id = RunIdOf(PageState.runId)]_vars

====
